---- MODULE Spec2Model ----
(***************************************************************************)
(* A model of bd-region: BluRay::open decoding MovieObject.bdmv            *)
(* (src/src/bluray/mod.rs) and RemoveArgs::exec patching navigation        *)
(* commands (src/src/main.rs).                                             *)
(*                                                                         *)
(* Bytes are integers 0..255 and buffers are sequences of bytes.  A u32 is *)
(* kept at its full width as [hi, lo]: hi is bit 31 and lo the low 31 bits.*)
(***************************************************************************)
EXTENDS Integers, Sequences, FiniteSets, TLC

\* ------------------------------------------------------------------ bounds
\* The most movie objects in a generated file.
MaxObjects == 2
\* The most navigation commands, over all objects, in a generated file.
MaxCommands == 2

\* ------------------------------------------------------------ byte helpers
Take(s, n) == SubSeq(s, 1, n)
Drop(s, n) == SubSeq(s, n + 1, Len(s))
Zeros(n) == [k \in 1..n |-> 0]
BitSet(b, k) == (b \div (2 ^ k)) % 2 = 1

\* <[u8]>::split_first_chunk::<N>: the first n bytes and the rest, or None.
SplitFirstChunk(s, n) ==
    IF Len(s) >= n
    THEN [ok |-> TRUE, chunk |-> Take(s, n), remainder |-> Drop(s, n)]
    ELSE [ok |-> FALSE, chunk |-> <<>>, remainder |-> s]

\* u16::from_be_bytes, u32::from_be_bytes and their inverses.
U16FromBe(b) == b[1] * 256 + b[2]
U32FromBe(b) ==
    [hi |-> b[1] \div 128,
     lo |-> (b[1] % 128) * 16777216 + b[2] * 65536 + b[3] * 256 + b[4]]
U16ToBe(n) == <<(n \div 256) % 256, n % 256>>
U32ToBe(v) ==
    <<v.hi * 128 + (v.lo \div 16777216), (v.lo \div 65536) % 256,
      (v.lo \div 256) % 256, v.lo % 256>>
U32Of(n) == [hi |-> 0, lo |-> n]

\* b"MOBJ0200"
MOVIE_OBJECT_HEADER == <<77, 79, 66, 74, 48, 50, 48, 48>>

\* ---------------------------------------------------------------- operands
Immediate(v) == [tag |-> "Immediate", value |-> v]
Gpr(n) == [tag |-> "Gpr", value |-> n]
Psr(n) == [tag |-> "Psr", value |-> n]
Unknown(v) == [tag |-> "Unknown", value |-> v]
\* What a failed try_into().unwrap() would leave: the thread panics.
PanicOperand == [tag |-> "Panic", value |-> 0]

\* u32 -> u8 and u32 -> u16 by try_into().unwrap()
TryIntoU8(n) == IF n <= 255 THEN Psr(n) ELSE PanicOperand
TryIntoU16(n) == IF n <= 65535 THEN Gpr(n) ELSE PanicOperand

\* Operand::new_register with both thresholds taken inclusively.
new_register_le(num) ==
    IF num.hi # 0
    THEN IF num.lo <= 128 THEN TryIntoU8(num.lo) ELSE Unknown(U32Of(num.lo))
    ELSE IF num.lo <= 4096 THEN TryIntoU16(num.lo) ELSE Unknown(num)

\* Operand::new_register
new_register(num) ==
    IF num.hi # 0
    THEN IF num.lo < 128 THEN TryIntoU8(num.lo) ELSE Unknown(U32Of(num.lo))
    ELSE IF num.lo < 4096 THEN TryIntoU16(num.lo) ELSE Unknown(num)

\* ----------------------------------------------------------------- opcodes
Branch(op) == [family |-> "Branch", op |-> op]
Compare(op) == [family |-> "Compare", op |-> op]
Set(op) == [family |-> "Set", op |-> op]
\* Option::None of decode_command
NoCommand == [family |-> "None", op |-> "None"]

\* A table in which every record of group 1 is a comparison.
decode_command_any_compare(g, s, b, c, t) ==
    IF g = 1 THEN Compare("Eq") ELSE NoCommand

\* decode_command: the match over (command_group, command_sub_group,
\* branch_option, compare_option, set_option), arm for arm; a field an arm
\* matches with _ is left out of its guard.
decode_command(g, s, b, c, t) ==
    CASE g = 0 /\ s = 0 /\ b = 0 -> Branch("Nop")
      [] g = 0 /\ s = 0 /\ b = 1 -> Branch("GoTo")
      [] g = 0 /\ s = 0 /\ b = 2 -> Branch("Break")
      [] g = 0 /\ s = 1 /\ b = 0 -> Branch("JumpObject")
      [] g = 0 /\ s = 1 /\ b = 1 -> Branch("JumpTitle")
      [] g = 0 /\ s = 1 /\ b = 2 -> Branch("CallObject")
      [] g = 0 /\ s = 1 /\ b = 3 -> Branch("CallTitle")
      [] g = 0 /\ s = 1 /\ b = 4 -> Branch("Resume")
      [] g = 0 /\ s = 2 /\ b = 0 -> Branch("PlayList")
      [] g = 0 /\ s = 2 /\ b = 1 -> Branch("PlayItem")
      [] g = 0 /\ s = 2 /\ b = 2 -> Branch("PlayMark")
      [] g = 0 /\ s = 2 /\ b = 3 -> Branch("Terminate")
      [] g = 0 /\ s = 2 /\ b = 4 -> Branch("LinkItem")
      [] g = 0 /\ s = 2 /\ b = 5 -> Branch("LinkMark")
      [] g = 1 /\ c = 1 -> Compare("Bc")
      [] g = 1 /\ c = 2 -> Compare("Eq")
      [] g = 1 /\ c = 3 -> Compare("Ne")
      [] g = 1 /\ c = 4 -> Compare("Ge")
      [] g = 1 /\ c = 5 -> Compare("Gt")
      [] g = 1 /\ c = 6 -> Compare("Le")
      [] g = 1 /\ c = 7 -> Compare("Lt")
      [] g = 2 /\ s = 0 /\ t = 1 -> Set("Move")
      [] g = 2 /\ s = 0 /\ t = 2 -> Set("Swap")
      [] g = 2 /\ s = 0 /\ t = 3 -> Set("Add")
      [] g = 2 /\ s = 0 /\ t = 4 -> Set("Sub")
      [] g = 2 /\ s = 0 /\ t = 5 -> Set("Mul")
      [] g = 2 /\ s = 0 /\ t = 6 -> Set("Div")
      [] g = 2 /\ s = 0 /\ t = 7 -> Set("Mod")
      [] g = 2 /\ s = 0 /\ t = 8 -> Set("Rnd")
      [] g = 2 /\ s = 0 /\ t = 9 -> Set("And")
      [] g = 2 /\ s = 0 /\ t = 10 -> Set("Or")
      [] g = 2 /\ s = 0 /\ t = 11 -> Set("Xor")
      [] g = 2 /\ s = 0 /\ t = 12 -> Set("Bitset")
      [] g = 2 /\ s = 0 /\ t = 13 -> Set("Bitclr")
      [] g = 2 /\ s = 0 /\ t = 14 -> Set("ShiftLeft")
      [] g = 2 /\ s = 0 /\ t = 15 -> Set("ShiftRight")
      [] g = 2 /\ s = 1 /\ t = 1 -> Set("SetStream")
      [] g = 2 /\ s = 1 /\ t = 2 -> Set("SetNVTimer")
      [] g = 2 /\ s = 1 /\ t = 3 -> Set("ButtonPage")
      [] g = 2 /\ s = 1 /\ t = 4 -> Set("EnableButton")
      [] g = 2 /\ s = 1 /\ t = 5 -> Set("DisableButton")
      [] g = 2 /\ s = 1 /\ t = 6 -> Set("SetSecondaryStream")
      [] g = 2 /\ s = 1 /\ t = 7 -> Set("PopupOff")
      [] g = 2 /\ s = 1 /\ t = 8 -> Set("StillOn")
      [] g = 2 /\ s = 1 /\ t = 9 -> Set("StillOff")
      [] OTHER -> NoCommand

\* ------------------------------------------------------------------ errors
NoError == [kind |-> "None"]
OkResult == [kind |-> "Ok"]
Err(kind) == [kind |-> kind]
BadMagicBytes(b) == [kind |-> "BadMagicBytes", bytes |-> b]
NavigationCommandTruncated(oi, ci) ==
    [kind |-> "NavigationCommandTruncated", i |-> oi, j |-> ci]
NavigationCommandInvalid(oi, ci, b) ==
    [kind |-> "NavigationCommandInvalid", i |-> oi, j |-> ci, bytes |-> b]
NavigationCommandBadOperandCount(oi, ci, n) ==
    [kind |-> "NavigationCommandBadOperandCount", i |-> oi, j |-> ci, count |-> n]

\* ----------------------------------------------------- one 12-byte record
OperandCountCode(b) == (b[1] \div 32) % 8

\* The match with code 3 taken for DestinationAndSource as well.
decode_operand_count_lenient(operand_count) ==
    IF operand_count = 0 THEN [ok |-> TRUE, value |-> "None"]
    ELSE IF operand_count = 1 THEN [ok |-> TRUE, value |-> "DestinationOnly"]
    ELSE IF operand_count <= 3 THEN [ok |-> TRUE, value |-> "DestinationAndSource"]
    ELSE [ok |-> FALSE, value |-> "None"]

\* The match on operand_count in BluRay::open.
decode_operand_count(operand_count) ==
    IF operand_count = 0 THEN [ok |-> TRUE, value |-> "None"]
    ELSE IF operand_count = 1 THEN [ok |-> TRUE, value |-> "DestinationOnly"]
    ELSE IF operand_count = 2 THEN [ok |-> TRUE, value |-> "DestinationAndSource"]
    ELSE [ok |-> FALSE, value |-> "None"]

\* The body of the command loop of BluRay::open from the 12 bytes on: the
\* decoded NavigationCommand, or the error the ? operators return.  Both
\* destination and source are read from bytes[4..8], as the source does.
\* raw_bytes is the field RemoveArgs::exec reads from each command.
DecodeNavigationCommand(oi, ci, b) ==
    LET destination == U32FromBe(SubSeq(b, 5, 8))
        source == U32FromBe(SubSeq(b, 5, 8))
        operand_count == decode_operand_count(OperandCountCode(b))
        command_group == (b[1] \div 8) % 4
        command_sub_group == b[1] % 8
        destination_is_immediate_value == BitSet(b[2], 7)
        source_is_immediate_value == BitSet(b[2], 6)
        branch_option == b[2] % 16
        compare_option == b[3] % 16
        set_option == b[4] % 32
        command == decode_command(command_group, command_sub_group, branch_option,
                                  compare_option, set_option)
    IN  IF ~operand_count.ok
        THEN [ok |-> FALSE,
              error |-> NavigationCommandBadOperandCount(oi, ci, OperandCountCode(b))]
        ELSE IF command = NoCommand
        THEN [ok |-> FALSE, error |-> NavigationCommandInvalid(oi, ci, b)]
        ELSE [ok |-> TRUE,
              value |->
                [command |-> command,
                 operand_count |-> operand_count.value,
                 destination |-> IF destination_is_immediate_value
                                 THEN Immediate(destination)
                                 ELSE new_register(destination),
                 source |-> IF source_is_immediate_value
                            THEN Immediate(source)
                            ELSE new_register(source),
                 raw_bytes |-> b]]

\* NavigationCommand::from_bytes, as RemoveArgs::exec calls it: the decoding
\* of one record outside any object (the indices only label an error).
FromBytes(b) == DecodeNavigationCommand(0, 0, b)

\* ---------------------------------------------------------- serialization
RECURSIVE ConcatAll(_)
ConcatAll(ss) == IF ss = <<>> THEN <<>> ELSE Head(ss) \o ConcatAll(Tail(ss))

RawBytesOf(commands) == ConcatAll([k \in 1..Len(commands) |-> commands[k].raw_bytes])

\* The 16-bit flag word of a movie object: bits 15, 14 and 13.
FlagWord(o) ==
    (IF o.resume_intention THEN 32768 ELSE 0)
    + (IF o.menu_call_mask THEN 16384 ELSE 0)
    + (IF o.title_search_mask THEN 8192 ELSE 0)

SerializeObject(o) ==
    U16ToBe(FlagWord(o)) \o U16ToBe(Len(o.navigation_commands))
    \o RawBytesOf(o.navigation_commands)

\* Bytes of the object table: the count, then per object 4 bytes and 12 per command.
RECURSIVE TableLen(_)
TableLen(objs) ==
    IF objs = <<>> THEN 2
    ELSE TableLen(Tail(objs)) + 4 + 12 * Len(Head(objs).navigation_commands)

\* MovieObjectFile::serialize: the fields in the order and widths of the
\* layout.  The decoded BluRay holds the movie objects only, so the extension
\* pointer and the reserved bytes are written as zero and the table length is
\* recomputed.
Serialize(objs) ==
    MOVIE_OBJECT_HEADER \o Zeros(4) \o Zeros(28)
    \o U32ToBe(U32Of(TableLen(objs))) \o Zeros(4) \o U16ToBe(Len(objs))
    \o ConcatAll([k \in 1..Len(objs) |-> SerializeObject(objs[k])])

\* ------------------------------------------------------------ patching
NOP_COMMAND_BYTES == Zeros(12)

\* `self.region as u32`: the discriminants of enum Region.
RegionAsU32(r) == IF r = "A" THEN 0 ELSE IF r = "B" THEN 1 ELSE 2

\* raw_bytes[1] |= 1 << 6
SetSourceIsImmediate(raw) == [raw EXCEPT ![2] = IF BitSet(@, 6) THEN @ ELSE @ + 64]

\* The closure RemoveArgs::exec maps over the commands of one movie object:
\* the replacement of command navigation_command_index of object
\* movie_object_index, as the Result that .unwrap() then opens.
PatchCommand(nops, a_region, a_country, movie_object_index, navigation_command_index, command) ==
    IF <<movie_object_index, navigation_command_index>> \in nops
    THEN FromBytes(NOP_COMMAND_BYTES)
    ELSE IF command.operand_count = "DestinationAndSource"
            /\ command.source.tag = "Psr" /\ command.source.value = 19
    THEN FromBytes([SetSourceIsImmediate(command.raw_bytes)
                      EXCEPT ![11] = a_country[1], ![12] = a_country[2]])
    ELSE IF command.operand_count = "DestinationAndSource"
            /\ command.source.tag = "Psr" /\ command.source.value = 20
    THEN LET r == U32ToBe(U32Of(RegionAsU32(a_region)))
         IN  FromBytes([SetSourceIsImmediate(command.raw_bytes)
                          EXCEPT ![9] = r[1], ![10] = r[2], ![11] = r[3], ![12] = r[4]])
    ELSE [ok |-> TRUE, value |-> command]

\* The outer map of RemoveArgs::exec: every object keeps its header and gets
\* one patched command per command, in order.
PatchResults(nops, a_region, a_country, objs) ==
    [o \in 1..Len(objs) |->
        [c \in 1..Len(objs[o].navigation_commands) |->
            PatchCommand(nops, a_region, a_country, o - 1, c - 1,
                         objs[o].navigation_commands[c])]]

PatchObjects(nops, a_region, a_country, objs) ==
    LET r == PatchResults(nops, a_region, a_country, objs)
    IN  [o \in 1..Len(objs) |->
            [objs[o] EXCEPT !.navigation_commands =
                [c \in 1..Len(objs[o].navigation_commands) |-> r[o][c].value]]]

\* Whether some .unwrap() in the map panics.
PatchPanics(nops, a_region, a_country, objs) ==
    LET r == PatchResults(nops, a_region, a_country, objs)
    IN  \E o \in 1..Len(objs) : \E c \in 1..Len(r[o]) : ~r[o][c].ok

\* ------------------------------------------------------------- input files
\* The files BluRay::open is run on.  Any byte buffer is an input; these are
\* the ones the model draws.

\* Records the patch engine treats differently.
SetMoveGprFromPsr20 == <<80, 0, 0, 1,   0, 0, 0, 5,   128, 0, 0, 20>>
SetMoveGprFromPsr19 == <<80, 0, 0, 1,   0, 0, 0, 5,   128, 0, 0, 19>>
SetMovePsr20FromGpr == <<80, 0, 0, 1,   128, 0, 0, 20,   0, 0, 0, 7>>
CompareEqPsr19WithOther == <<72, 0, 2, 0,   128, 0, 0, 19,   18, 52, 86, 120>>
SetMovePsr20FromPsr20 == <<80, 0, 0, 1,   128, 0, 0, 20,   128, 0, 0, 20>>
CompareEqPsr19WithPsr19 == <<72, 0, 2, 0,   128, 0, 0, 19,   128, 0, 0, 19>>
BadOperandCountRecord == <<248, 0, 0, 0,   0, 0, 0, 0,   0, 0, 0, 0>>
InvalidCommandRecord == <<24, 0, 0, 0,   0, 0, 0, 0,   0, 0, 0, 0>>

PatchPool ==
    {SetMoveGprFromPsr20, SetMoveGprFromPsr19, SetMovePsr20FromGpr,
     CompareEqPsr19WithOther, SetMovePsr20FromPsr20, CompareEqPsr19WithPsr19,
     NOP_COMMAND_BYTES, BadOperandCountRecord, InvalidCommandRecord}

\* 32-bit operand values at and around the classifier's thresholds.
OperandValues ==
    {<<0, 0, 0, 0>>, <<0, 0, 0, 127>>, <<0, 0, 0, 128>>, <<0, 0, 15, 255>>,
     <<0, 0, 16, 0>>, <<0, 0, 255, 255>>, <<0, 1, 0, 0>>, <<127, 255, 255, 255>>,
     <<128, 0, 0, 0>>, <<128, 0, 0, 19>>, <<128, 0, 0, 20>>, <<128, 0, 0, 127>>,
     <<128, 0, 0, 128>>, <<128, 0, 0, 255>>, <<128, 0, 1, 0>>, <<128, 0, 16, 0>>,
     <<255, 255, 255, 255>>}
SourceValues == {<<0, 0, 0, 7>>, <<128, 0, 0, 20>>, <<128, 0, 0, 19>>, <<255, 255, 255, 255>>}

\* Records over every operand-count code and opcode group, with and without
\* the unused bits of bytes 1-3 set.
OpcodeRecords ==
    {<<a * 32 + g * 8 + s, b1, b2, b3, 0, 0, 0, 5, 0, 0, 0, 7>> :
        a \in 0..7, g \in 0..3, s \in 0..3, b1 \in {0, 53}, b2 \in {2, 248}, b3 \in {0, 1, 234}}

\* The option fields of a record: every branch option, every compare option
\* and every set option, each under two settings of the other two.
OptionTriples ==
    {<<b, k, 2 * k + k \div 15>> : b \in 0..15, k \in {0, 15}}
    \cup {<<k, c, 2 * k + k \div 15>> : c \in 0..15, k \in {0, 15}}
    \cup {<<k, k, t>> : t \in 0..31, k \in {0, 15}}

\* Records with no operands over every group, every sub-group and the
\* option triples.
TableRecords ==
    {<<g * 8 + s, o[1], o[2], o[3], 0, 0, 0, 5, 0, 0, 0, 7>> :
        g \in 0..3, s \in 0..7, o \in OptionTriples}

\* Records over the operand values and the two is-immediate flags.
OperandRecords ==
    {<<b0, b1, 0, 1>> \o d \o s :
        b0 \in {80, 48}, b1 \in {0, 64, 128, 192}, d \in OperandValues, s \in SourceValues}

\* A movie object as bytes.
ObjectBytes(flags, commands) ==
    U16ToBe(flags) \o U16ToBe(Len(commands)) \o ConcatAll(commands)

\* A whole file: header h, the objects' bytes, and what follows the table.
FileBytes(h, objects) ==
    LET table == ConcatAll(objects)
    IN  h.magic \o h.extension \o [k \in 1..28 |-> h.fill]
        \o (IF h.exact_length THEN U32ToBe(U32Of(2 + Len(table))) ELSE Zeros(4))
        \o [k \in 1..4 |-> h.fill] \o U16ToBe(Len(objects)) \o table \o h.trailing

PlainHeader ==
    [magic |-> MOVIE_OBJECT_HEADER, extension |-> Zeros(4), fill |-> 0,
     exact_length |-> TRUE, trailing |-> <<>>]

HeaderVariants ==
    [magic : {MOVIE_OBJECT_HEADER, <<88, 88, 88, 88, 48, 50, 48, 48>>},
     extension : {Zeros(4), <<0, 0, 0, 70>>},
     fill : {0, 171},
     exact_length : BOOLEAN,
     trailing : {<<>>, <<222, 173, 190>>}]

RECURSIVE SumSeq(_)
SumSeq(s) == IF s = <<>> THEN 0 ELSE Head(s) + SumSeq(Tail(s))

\* How many commands each object of a file holds: at most MaxObjects objects
\* and MaxCommands commands in all.
Shapes ==
    {s \in UNION {[1..n -> 0..MaxCommands] : n \in 0..MaxObjects} : SumSeq(s) <= MaxCommands}

\* The objects of shape s filled, in order, with the records of f.
RECURSIVE FillShape(_, _)
FillShape(s, f) ==
    IF s = <<>> THEN <<>>
    ELSE <<ObjectBytes(0, SubSeq(f, 1, Head(s)))>>
         \o FillShape(Tail(s), SubSeq(f, Head(s) + 1, Len(f)))

\* Well-formed files over the patch pool.
PatchFiles ==
    UNION {{FileBytes(PlainHeader, FillShape(s, f)) : f \in [1..SumSeq(s) -> PatchPool]} :
            s \in Shapes}

\* Well-formed files of one object holding one record.
RecordFiles ==
    {FileBytes(PlainHeader, <<ObjectBytes(0, <<r>>)>>) : r \in OpcodeRecords \cup TableRecords \cup OperandRecords}

\* One file of two objects under every header variant, cut at every length.
VariantObjects ==
    <<ObjectBytes(40961, <<SetMoveGprFromPsr20>>), ObjectBytes(16384, <<>>)>>
VariantFiles ==
    UNION {{Take(FileBytes(h, VariantObjects), n) : n \in 0..Len(FileBytes(h, VariantObjects))} :
            h \in HeaderVariants}

InputFiles == PatchFiles \cup RecordFiles \cup VariantFiles

\* The arguments of the remove command.
Regions == {"A", "B", "C"}
Countries == {<<85, 83>>, <<74, 80>>}
NopLocators == {<<0, 0>>, <<0, 1>>, <<1, 0>>, <<MaxObjects, 0>>}
NopPatchSets == {{}} \cup {{l} : l \in NopLocators} \cup {NopLocators}

\* ------------------------------------------------------------------- state
VARIABLES
    contents,                  \* the bytes read from MovieObject.bdmv
    pc,                        \* where BluRay::open or main is
    unparsed,                  \* the slice not yet parsed
    movie_objects_length,      \* the u32 at offset 40
    movie_objects_count,       \* the u16 at offset 48
    i,                         \* index of the movie object being parsed
    j,                         \* index of the navigation command being parsed
    object_flags,              \* the three flags of movie object i
    navigation_commands_count, \* the command count of movie object i
    navigation_commands,       \* the commands of movie object i decoded so far
    movie_objects,             \* the movie objects decoded so far
    bytes,                     \* the last 12-byte chunk split off for a command
    result,                    \* what open returned: Ok or the OpenError
    nop_patches, region, country,  \* the arguments exec used
    patched_objects,           \* the movie objects exec built
    out                        \* the bytes exec wrote

vars ==
    <<contents, pc, unparsed, movie_objects_length, movie_objects_count, i, j,
      object_flags, navigation_commands_count, navigation_commands, movie_objects,
      bytes, result, nop_patches, region, country, patched_objects, out>>

header_vars == <<movie_objects_length, movie_objects_count>>
loop_vars ==
    <<i, j, object_flags, navigation_commands_count, navigation_commands,
      movie_objects, bytes>>
exec_vars == <<nop_patches, region, country, patched_objects, out>>

NoFlags ==
    [resume_intention |-> FALSE, menu_call_mask |-> FALSE, title_search_mask |-> FALSE]

Init ==
    /\ contents \in InputFiles
    /\ pc = "magic"
    /\ unparsed = contents
    /\ movie_objects_length = U32Of(0)
    /\ movie_objects_count = 0
    /\ i = 0
    /\ j = 0
    /\ object_flags = NoFlags
    /\ navigation_commands_count = 0
    /\ navigation_commands = <<>>
    /\ movie_objects = <<>>
    /\ bytes = <<>>
    /\ result = NoError
    /\ nop_patches = {}
    /\ region = "A"
    /\ country = <<>>
    /\ patched_objects = <<>>
    /\ out = <<>>

\* return Err(e)
Fail(e) ==
    /\ pc' = "failed"
    /\ result' = e

\* A header field of n bytes that open splits off and does not keep: on None
\* the error, else on to the next field.
SkipField(n, e, next) ==
    /\ LET s == SplitFirstChunk(unparsed, n)
       IN  IF ~s.ok
           THEN Fail(e) /\ UNCHANGED unparsed
           ELSE /\ unparsed' = s.remainder
                /\ pc' = next
                /\ UNCHANGED result
    /\ UNCHANGED <<contents, header_vars, loop_vars, exec_vars>>

\* The comparison left out.
MagicMatchesAlways(magic_bytes) == TRUE

\* magic_bytes != MOVIE_OBJECT_HEADER, negated
MagicMatches(magic_bytes) == magic_bytes = MOVIE_OBJECT_HEADER

\* The magic signature.
SplitMagic ==
    /\ pc = "magic"
    /\ LET s == SplitFirstChunk(unparsed, 8)
       IN  IF ~s.ok
           THEN Fail(Err("NoMagicBytes")) /\ UNCHANGED unparsed
           ELSE IF ~MagicMatches(s.chunk)
           THEN Fail(BadMagicBytes(s.chunk)) /\ UNCHANGED unparsed
           ELSE /\ unparsed' = s.remainder
                /\ pc' = "extension"
                /\ UNCHANGED result
    /\ UNCHANGED <<contents, header_vars, loop_vars, exec_vars>>

\* The extension start address, then the 28 reserved bytes.
SplitExtensionStartAddress ==
    /\ pc = "extension"
    /\ SkipField(4, Err("NoExtensionStartAddress"), "reserved")

SplitReserved ==
    /\ pc = "reserved"
    /\ SkipField(28, Err("NoReservedBytes"), "length")

\* The length of the movie objects.
SplitMovieObjectsLength ==
    /\ pc = "length"
    /\ LET s == SplitFirstChunk(unparsed, 4)
       IN  IF ~s.ok
           THEN Fail(Err("MovieObjectsNoLength")) /\ UNCHANGED <<unparsed, movie_objects_length>>
           ELSE /\ unparsed' = s.remainder
                /\ movie_objects_length' = U32FromBe(s.chunk)
                /\ pc' = "reserved2"
                /\ UNCHANGED result
    /\ UNCHANGED <<contents, movie_objects_count, loop_vars, exec_vars>>

\* The 4 reserved bytes after the length.
SplitMovieObjectsReserved ==
    /\ pc = "reserved2"
    /\ SkipField(4, Err("MovieObjectsNoReservedBytes"), "count")

\* Where the loop over the movie objects goes with n of count objects done:
\* into the next object, or out to Ok(BluRay).
\* The loop left one object early.
AfterObjectsShort(n, count) == IF n + 1 < count THEN "flags" ELSE "opened"

AfterObjects(n, count) == IF n < count THEN "flags" ELSE "opened"
ResultAt(next) == IF next = "opened" THEN OkResult ELSE NoError

\* The count of movie objects; the loop starts.
SplitMovieObjectsCount ==
    /\ pc = "count"
    /\ LET s == SplitFirstChunk(unparsed, 2)
       IN  IF ~s.ok
           THEN Fail(Err("MovieObjectsNoCount")) /\ UNCHANGED <<unparsed, movie_objects_count>>
           ELSE /\ unparsed' = s.remainder
                /\ movie_objects_count' = U16FromBe(s.chunk)
                /\ pc' = AfterObjects(0, U16FromBe(s.chunk))
                /\ result' = ResultAt(AfterObjects(0, U16FromBe(s.chunk)))
    /\ UNCHANGED <<contents, movie_objects_length, loop_vars, exec_vars>>

\* The three flags of a flag word.
FlagsOf(flags) ==
    [resume_intention |-> BitSet(flags, 15),
     menu_call_mask |-> BitSet(flags, 14),
     title_search_mask |-> BitSet(flags, 13)]

\* The flag word of movie object i.
SplitFlags ==
    /\ pc = "flags"
    /\ LET s == SplitFirstChunk(unparsed, 2)
       IN  IF ~s.ok
           THEN Fail(Err("MovieObjectNoFlags")) /\ UNCHANGED <<unparsed, object_flags>>
           ELSE /\ unparsed' = s.remainder
                /\ object_flags' = FlagsOf(U16FromBe(s.chunk))
                /\ pc' = "commands_count"
                /\ UNCHANGED result
    /\ UNCHANGED <<contents, header_vars, i, j, navigation_commands_count,
                   navigation_commands, movie_objects, bytes, exec_vars>>

\* movie_objects.push(MovieObject { .. })
PushMovieObject(commands) ==
    Append(movie_objects,
           [resume_intention |-> object_flags.resume_intention,
            menu_call_mask |-> object_flags.menu_call_mask,
            title_search_mask |-> object_flags.title_search_mask,
            navigation_commands |-> commands])

\* The command count of movie object i; an object of no commands is pushed.
SplitNavigationCommandsCount ==
    /\ pc = "commands_count"
    /\ LET s == SplitFirstChunk(unparsed, 2)
       IN  IF ~s.ok
           THEN /\ Fail(Err("NavigationCommandsNoCount"))
                /\ UNCHANGED <<unparsed, i, j, navigation_commands_count,
                               navigation_commands, movie_objects>>
           ELSE /\ unparsed' = s.remainder
                /\ navigation_commands_count' = U16FromBe(s.chunk)
                /\ navigation_commands' = <<>>
                /\ j' = 0
                /\ IF U16FromBe(s.chunk) = 0
                   THEN /\ movie_objects' = PushMovieObject(<<>>)
                        /\ i' = i + 1
                        /\ pc' = AfterObjects(i + 1, movie_objects_count)
                        /\ result' = ResultAt(AfterObjects(i + 1, movie_objects_count))
                   ELSE /\ pc' = "command"
                        /\ UNCHANGED <<movie_objects, i, result>>
    /\ UNCHANGED <<contents, header_vars, object_flags, bytes, exec_vars>>

\* A command taken to be 64 bits wide.
SplitCommandShort(s) == SplitFirstChunk(s, 8)

\* unparsed.split_first_chunk::<12>(): each navigation command is 96 bits.
SplitCommand(s) == SplitFirstChunk(s, 12)

\* Navigation command j of movie object i; the last one pushes the object.
DecodeCommand ==
    /\ pc = "command"
    /\ LET s == SplitCommand(unparsed)
           d == DecodeNavigationCommand(i, j, s.chunk)
       IN  IF ~s.ok
           THEN /\ Fail(NavigationCommandTruncated(i, j))
                /\ UNCHANGED <<unparsed, bytes, i, j, navigation_commands, movie_objects>>
           ELSE /\ unparsed' = s.remainder
                /\ bytes' = s.chunk
                /\ IF ~d.ok
                   THEN /\ Fail(d.error)
                        /\ UNCHANGED <<i, j, navigation_commands, movie_objects>>
                   ELSE /\ navigation_commands' = Append(navigation_commands, d.value)
                        /\ j' = j + 1
                        /\ IF j + 1 < navigation_commands_count
                           THEN /\ pc' = "command"
                                /\ UNCHANGED <<movie_objects, i, result>>
                           ELSE /\ movie_objects' =
                                     PushMovieObject(Append(navigation_commands, d.value))
                                /\ i' = i + 1
                                /\ pc' = AfterObjects(i + 1, movie_objects_count)
                                /\ result' = ResultAt(AfterObjects(i + 1, movie_objects_count))
    /\ UNCHANGED <<contents, header_vars, object_flags, navigation_commands_count, exec_vars>>

\* The remove command on the opened disc: every command is patched or kept
\* and the file is serialized to the output path.  The arguments are fixed
\* when the program starts and first read here; a failure to create the
\* output file leaves all of this state as it is and is not modelled.
Exec ==
    /\ pc = "opened"
    /\ \E nops \in NopPatchSets, r \in Regions, c \in Countries :
        /\ nop_patches' = nops
        /\ region' = r
        /\ country' = c
        /\ IF PatchPanics(nops, r, c, movie_objects)
           THEN /\ pc' = "panicked"
                /\ UNCHANGED <<patched_objects, out>>
           ELSE /\ pc' = "written"
                /\ patched_objects' = PatchObjects(nops, r, c, movie_objects)
                /\ out' = Serialize(PatchObjects(nops, r, c, movie_objects))
    /\ UNCHANGED <<contents, unparsed, header_vars, loop_vars, result>>

Next ==
    \/ SplitMagic
    \/ SplitExtensionStartAddress
    \/ SplitReserved
    \/ SplitMovieObjectsLength
    \/ SplitMovieObjectsReserved
    \/ SplitMovieObjectsCount
    \/ SplitFlags
    \/ SplitNavigationCommandsCount
    \/ DecodeCommand
    \/ Exec

Spec == Init /\ [][Next]_vars

\* ------------------------------------------------------------ the encoder
\* The instruction encoder of the design (section 4.3): the 12 bytes of a
\* command from its operand count, operation and two operands, in the record
\* layout of section 6.
EncodeOperand(op) ==
    IF op.tag = "Immediate" \/ op.tag = "Unknown" THEN op.value
    ELSE IF op.tag = "Psr" THEN [hi |-> 1, lo |-> op.value]
    ELSE U32Of(op.value)

\* The opcode fields that decode to a command; a compare has sub-group 0.
EncodeOpcode(command) ==
    CHOOSE f \in [group : 0..2, sub_group : 0..2, option : 0..15] :
        /\ decode_command(f.group, f.sub_group, f.option, f.option, f.option) = command
        /\ f.group = 1 => f.sub_group = 0

EncodeOperandCount(n) ==
    IF n = "None" THEN 0 ELSE IF n = "DestinationOnly" THEN 1 ELSE 2

EncodeCommand(cmd) ==
    LET f == EncodeOpcode(cmd.command)
    IN  <<EncodeOperandCount(cmd.operand_count) * 32 + f.group * 8 + f.sub_group,
          (IF cmd.destination.tag = "Immediate" THEN 128 ELSE 0)
            + (IF cmd.source.tag = "Immediate" THEN 64 ELSE 0)
            + (IF f.group = 0 THEN f.option ELSE 0),
          IF f.group = 1 THEN f.option ELSE 0,
          IF f.group = 2 THEN f.option ELSE 0>>
        \o U32ToBe(EncodeOperand(cmd.destination))
        \o U32ToBe(EncodeOperand(cmd.source))

\* ------------------------------------------------- what the claims speak of
\* Every navigation command decoded so far.
DecodedCommands ==
    UNION {{movie_objects[o].navigation_commands[c] :
                c \in 1..Len(movie_objects[o].navigation_commands)} :
            o \in 1..Len(movie_objects)}
    \cup {navigation_commands[k] : k \in 1..Len(navigation_commands)}

\* The (object, command) places of the opened container, counted from 1.
Places ==
    {<<o, c>> \in (1..Len(movie_objects)) \X (1..(MaxCommands + 1)) :
        c <= Len(movie_objects[o].navigation_commands)}

\* Offset of object o in a serialized file whose objects have the command
\* counts of objs.
RECURSIVE ObjectOffset(_, _)
ObjectOffset(objs, o) ==
    IF o = 1 THEN 50
    ELSE ObjectOffset(objs, o - 1) + 4 + 12 * Len(objs[o - 1].navigation_commands)

\* The flag word of object o and the record at place (o, c) in buffer buf.
FlagWordAt(buf, objs, o) ==
    U16FromBe(SubSeq(buf, ObjectOffset(objs, o) + 1, ObjectOffset(objs, o) + 2))
RecordAt(buf, objs, o, c) ==
    SubSeq(buf, ObjectOffset(objs, o) + 4 + 12 * (c - 1) + 1,
                ObjectOffset(objs, o) + 4 + 12 * c)

\* The operand a record's 4 value bytes and is-immediate flag stand for.
OperandOf(is_immediate, value_bytes) ==
    IF is_immediate THEN Immediate(U32FromBe(value_bytes))
    ELSE new_register(U32FromBe(value_bytes))

\* Whether record x reads Player-Specific Register n as its source: operand
\* count DestinationAndSource, source not immediate, bytes 8-11 = 0x80000000 | n.
SourceIsPsr(x, n) ==
    /\ OperandCountCode(x) = 2
    /\ ~BitSet(x[2], 6)
    /\ SubSeq(x, 9, 12) = <<128, 0, 0, n>>

\* Bytes of the object table open has consumed.
Consumed == Len(contents) - Len(unparsed) - 48

\* ------------------------------------------------------------------ claims

\* C1: every 12-byte record that decodes successfully is reproduced exactly,
\* uninterpreted bits included, by re-encoding the decoded NavigationCommand.
C1_RecordRoundTrip ==
    \A cmd \in DecodedCommands : EncodeCommand(cmd) = cmd.raw_bytes

\* C2: decoding and re-encoding a container carries the extension pointer,
\* the 28 reserved header bytes, the 4 reserved bytes after the table length
\* and each object's flag word through unchanged, and decoding the encoding
\* gives the container back field for field.
C2_ContainerRoundTrip ==
    pc = "opened" =>
        LET enc == Serialize(movie_objects)
        IN  /\ SubSeq(enc, 9, 12) = SubSeq(contents, 9, 12)
            /\ SubSeq(enc, 13, 40) = SubSeq(contents, 13, 40)
            /\ SubSeq(enc, 45, 48) = SubSeq(contents, 45, 48)
            /\ U16FromBe(SubSeq(enc, 49, 50)) = Len(movie_objects)
            /\ \A o \in 1..Len(movie_objects) :
                /\ FlagWordAt(enc, movie_objects, o) = FlagWordAt(contents, movie_objects, o)
                /\ FlagsOf(FlagWordAt(enc, movie_objects, o)) =
                     [f \in DOMAIN NoFlags |-> movie_objects[o][f]]
            /\ \A p \in Places :
                FromBytes(RecordAt(enc, movie_objects, p[1], p[2])).value =
                    movie_objects[p[1]].navigation_commands[p[2]]

\* C3: in every decoded record the destination is the big-endian u32 of bytes
\* 4-7 and the source the big-endian u32 of bytes 8-11, each Immediate exactly
\* when its own flag (byte 1 bit 7, bit 6) is set and a register otherwise.
C3_OperandValues ==
    \A cmd \in DecodedCommands :
        /\ cmd.destination =
             OperandOf(BitSet(cmd.raw_bytes[2], 7), SubSeq(cmd.raw_bytes, 5, 8))
        /\ cmd.source =
             OperandOf(BitSet(cmd.raw_bytes[2], 6), SubSeq(cmd.raw_bytes, 9, 12))

\* C4: a record decodes only with operand-count code 0, 1 or 2 (None,
\* DestinationOnly, DestinationAndSource); a record with code 3..7 fails with
\* the bad-operand-count error carrying its object index, its command index
\* and the code, whatever its other bytes are.
C4_ArityTotality ==
    /\ \A cmd \in DecodedCommands :
        /\ OperandCountCode(cmd.raw_bytes) \in {0, 1, 2}
        /\ cmd.operand_count =
             <<"None", "DestinationOnly", "DestinationAndSource">>[
                 OperandCountCode(cmd.raw_bytes) + 1]
    /\ (bytes # <<>> /\ OperandCountCode(bytes) >= 3) =>
        /\ pc = "failed"
        /\ result = NavigationCommandBadOperandCount(
                        Len(movie_objects), Len(navigation_commands),
                        OperandCountCode(bytes))

\* C4's case: the second object's first record has code 7 and an opcode
\* group that matches nothing, and open failed on the code.
C4_Witness ==
    /\ pc = "failed"
    /\ bytes = BadOperandCountRecord
    /\ result = NavigationCommandBadOperandCount(1, 0, 7)

\* The four cases of the register classification of a raw value v.
ClassifiedAs(operand, v) ==
    IF v.hi = 1 /\ v.lo < 128 THEN operand.tag = "Psr" /\ operand.value = v.lo
    ELSE IF v.hi = 1 THEN operand.tag = "Unknown"
    ELSE IF v.lo < 4096 THEN operand.tag = "Gpr" /\ operand.value = v.lo
    ELSE operand.tag = "Unknown"

\* C5: an operand whose is-immediate flag is clear is Psr(low 31 bits) when
\* the top bit of its raw value is set and the rest is below 128, Unknown when
\* the rest is 128 or more, Gpr(v) when the top bit is clear and v < 4096, and
\* Unknown otherwise; no conversion fails.  The raw value is the one the
\* decoder hands the classifier, for both operands the u32 of bytes[4..8].
C5_RegisterClassification ==
    \A cmd \in DecodedCommands :
        LET v == U32FromBe(SubSeq(cmd.raw_bytes, 5, 8))
        IN  /\ ~BitSet(cmd.raw_bytes[2], 7) => ClassifiedAs(cmd.destination, v)
            /\ ~BitSet(cmd.raw_bytes[2], 6) => ClassifiedAs(cmd.source, v)
            /\ cmd.destination.tag # "Panic"
            /\ cmd.source.tag # "Panic"

\* C5's case: a register whose top bit is set and whose low bits are exactly
\* 128 was classified.
C5_Witness ==
    \E cmd \in DecodedCommands :
        /\ ~BitSet(cmd.raw_bytes[2], 7)
        /\ SubSeq(cmd.raw_bytes, 5, 8) = <<128, 0, 0, 128>>
        /\ cmd.destination.tag = "Unknown"

\* C6: every existing place in the no-op edit set holds the all-zero record
\* in the output, which decodes as Branch-Nop with operand count None; every
\* record that is neither there nor a DestinationAndSource read of PSR 19 or
\* PSR 20 is byte-identical to the original.
C6_NopPatch ==
    pc = "written" =>
        \A p \in Places :
            LET x == RecordAt(contents, movie_objects, p[1], p[2])
                y == RecordAt(out, patched_objects, p[1], p[2])
            IN  IF <<p[1] - 1, p[2] - 1>> \in nop_patches
                THEN /\ y = Zeros(12)
                     /\ FromBytes(y).ok
                     /\ FromBytes(y).value.command = Branch("Nop")
                     /\ FromBytes(y).value.operand_count = "None"
                ELSE (~SourceIsPsr(x, 19) /\ ~SourceIsPsr(x, 20)) => y = x

\* The country as the 32-bit value of an immediate operand.
CountryValue(c) == <<0, 0, c[1], c[2]>>

\* C7's statement for one record x, its patched record y and replacement v.
Overridden(x, y, v) ==
    /\ FromBytes(y).ok
    /\ FromBytes(y).value.source = Immediate(U32FromBe(v))
    /\ SubSeq(y, 9, 12) = v
    /\ FromBytes(y).value.destination = FromBytes(x).value.destination
    /\ FromBytes(y).value.operand_count = FromBytes(x).value.operand_count
    /\ FromBytes(y).value.command = FromBytes(x).value.command

\* C7: a DestinationAndSource instruction whose source is the register PSR 19
\* (PSR 20) re-decodes, patched, with an Immediate source equal to the country
\* (region) value and the same destination, operand count and operation; any
\* other instruction that is not no-op patched keeps its 12 bytes.
C7_ConstantOverride ==
    pc = "written" =>
        \A p \in Places :
            LET x == RecordAt(contents, movie_objects, p[1], p[2])
                y == RecordAt(out, patched_objects, p[1], p[2])
            IN  <<p[1] - 1, p[2] - 1>> \notin nop_patches =>
                    IF SourceIsPsr(x, 19) THEN Overridden(x, y, CountryValue(country))
                    ELSE IF SourceIsPsr(x, 20)
                    THEN Overridden(x, y, U32ToBe(U32Of(RegionAsU32(region))))
                    ELSE y = x

\* What open has parsed when it has parsed nothing.
NothingParsed ==
    /\ unparsed = contents
    /\ movie_objects_length = U32Of(0)
    /\ movie_objects_count = 0
    /\ movie_objects = <<>>
    /\ navigation_commands = <<>>
    /\ bytes = <<>>

\* C8: on a buffer shorter than 8 bytes open fails with NoMagicBytes; on a
\* buffer of 8 bytes or more whose first 8 are not MOBJ0200 it fails with
\* BadMagicBytes of exactly those 8 bytes; either way nothing after them has
\* been examined, whatever follows and however long the buffer is.
C8_HeaderValidationOrder ==
    pc # "magic" =>
        /\ Len(contents) < 8 =>
            pc = "failed" /\ result = Err("NoMagicBytes") /\ NothingParsed
        /\ (Len(contents) >= 8 /\ Take(contents, 8) # MOVIE_OBJECT_HEADER) =>
            /\ pc = "failed"
            /\ result = BadMagicBytes(Take(contents, 8))
            /\ NothingParsed

\* C8's case: a whole file whose magic is XXXX0200 was rejected.
C8_Witness ==
    /\ pc = "failed"
    /\ result = BadMagicBytes(<<88, 88, 88, 88, 48, 50, 48, 48>>)
    /\ Len(contents) > 50

\* C9: the patched output is as long as the input and has the same number of
\* objects, the same number of commands in each object and every record at
\* its place; only records an edit targets differ.
C9_PatchPreservesStructure ==
    pc = "written" =>
        /\ Len(out) = Len(contents)
        /\ Len(patched_objects) = Len(movie_objects)
        /\ U16FromBe(SubSeq(out, 49, 50)) = U16FromBe(SubSeq(contents, 49, 50))
        /\ \A o \in 1..Len(movie_objects) :
            /\ Len(patched_objects[o].navigation_commands) =
                 Len(movie_objects[o].navigation_commands)
            /\ SubSeq(out, ObjectOffset(movie_objects, o) + 3,
                           ObjectOffset(movie_objects, o) + 4)
                 = SubSeq(contents, ObjectOffset(movie_objects, o) + 3,
                                    ObjectOffset(movie_objects, o) + 4)
        /\ \A p \in Places :
            LET x == RecordAt(contents, movie_objects, p[1], p[2])
                y == RecordAt(out, movie_objects, p[1], p[2])
            IN  \/ y = x
                \/ <<p[1] - 1, p[2] - 1>> \in nop_patches
                \/ SourceIsPsr(x, 19)
                \/ SourceIsPsr(x, 20)

\* C10 as claimed: whenever open succeeds, the bytes of the object table it
\* consumed equal the length field read at offset 40.
C10_TableLengthMatchesField ==
    pc = "opened" => movie_objects_length = U32Of(Consumed)

\* C10 as amended: whenever open succeeds, the bytes of the object table it
\* consumed are 2 for the count plus, per object, 4 and 12 per command.
C10_ConsumedByCounts ==
    pc = "opened" => Consumed = TableLen(movie_objects)

\* C10's case: open succeeded on a file of two objects whose length field
\* differs from what was consumed.
C10_Witness ==
    /\ pc = "opened"
    /\ Len(movie_objects) = 2
    /\ movie_objects_length # U32Of(Consumed)

\* Offset in the file of the movie object open is in: after the 50 bytes up
\* to the object count and every object pushed so far.
CurrentObjectOffset == ObjectOffset(movie_objects, Len(movie_objects) + 1)

\* Offset of the record open failed on, and that record when it is all there.
FailedRecordOffset == CurrentObjectOffset + 4 + 12 * Len(navigation_commands)
FailedRecord == SubSeq(contents, FailedRecordOffset + 1, FailedRecordOffset + 12)

RecordErrors ==
    {"NavigationCommandTruncated", "NavigationCommandInvalid",
     "NavigationCommandBadOperandCount"}

\* The objects pushed so far are the first objects of the file, command for
\* command and in the file's order.
PushedInInputOrder ==
    /\ \A o \in 1..Len(movie_objects) :
        Len(movie_objects[o].navigation_commands) =
            U16FromBe(SubSeq(contents, ObjectOffset(movie_objects, o) + 3,
                                       ObjectOffset(movie_objects, o) + 4))
    /\ \A p \in Places :
        LET decoded == DecodeNavigationCommand(p[1] - 1, p[2] - 1,
                           RecordAt(contents, movie_objects, p[1], p[2]))
        IN  /\ decoded.ok
            /\ movie_objects[p[1]].navigation_commands[p[2]] = decoded.value

\* C11: open returns a container only when every declared object and every
\* declared command of each decoded, and the container then holds exactly
\* the declared objects and commands in input order; otherwise it returns no
\* container but the error of the first step that failed, and an error about
\* a record carries that record's object index and command index.
C11_AllOrNothing ==
    /\ result.kind = "Ok" <=> pc \in {"opened", "written", "panicked"}
    /\ pc \in {"opened", "written"} =>
        /\ Len(movie_objects) = U16FromBe(SubSeq(contents, 49, 50))
        /\ PushedInInputOrder
    /\ pc = "failed" =>
        /\ result.kind \notin {"Ok", "None"}
        /\ PushedInInputOrder
        /\ Len(contents) >= 50 => Len(movie_objects) < U16FromBe(SubSeq(contents, 49, 50))
        /\ result.kind = "MovieObjectNoFlags" => Len(contents) < CurrentObjectOffset + 2
        /\ result.kind = "NavigationCommandsNoCount" =>
            /\ Len(contents) >= CurrentObjectOffset + 2
            /\ Len(contents) < CurrentObjectOffset + 4
        /\ result.kind \in RecordErrors =>
            /\ result.i = Len(movie_objects)
            /\ result.j = Len(navigation_commands)
            /\ Len(navigation_commands) <
                 U16FromBe(SubSeq(contents, CurrentObjectOffset + 3, CurrentObjectOffset + 4))
            /\ \A k \in 1..Len(navigation_commands) :
                LET decoded == DecodeNavigationCommand(result.i, k - 1,
                        SubSeq(contents, CurrentObjectOffset + 4 + 12 * (k - 1) + 1,
                                         CurrentObjectOffset + 4 + 12 * k))
                IN  /\ decoded.ok
                    /\ navigation_commands[k] = decoded.value
            /\ result.kind = "NavigationCommandTruncated" =>
                Len(contents) < FailedRecordOffset + 12
            /\ result.kind = "NavigationCommandBadOperandCount" =>
                /\ Len(contents) >= FailedRecordOffset + 12
                /\ ~decode_operand_count(OperandCountCode(FailedRecord)).ok
                /\ result.count = OperandCountCode(FailedRecord)
            /\ result.kind = "NavigationCommandInvalid" =>
                /\ Len(contents) >= FailedRecordOffset + 12
                /\ ~DecodeNavigationCommand(result.i, result.j, FailedRecord).ok
                /\ result = DecodeNavigationCommand(result.i, result.j, FailedRecord).error
                /\ result.bytes = FailedRecord

\* C11's case: the first object decoded whole and the first record of the
\* second matched no opcode, so open returned that record's error.
C11_Witness ==
    /\ pc = "failed"
    /\ Len(movie_objects) = 1
    /\ Len(movie_objects[1].navigation_commands) = 1
    /\ result = NavigationCommandInvalid(1, 0, InvalidCommandRecord)

\* The fields of record x that decode_command is called with.
GroupOf(x) == (x[1] \div 8) % 4
SubGroupOf(x) == x[1] % 8
BranchOptionOf(x) == x[2] % 16
CompareOptionOf(x) == x[3] % 16
SetOptionOf(x) == x[4] % 32

\* The entries of the opcode table: group 0 by (sub-group, branch option),
\* group 1 by compare option, group 2 by (sub-group, set option).
TableEntries ==
    {<<0, 0, b>> : b \in 0..2} \cup {<<0, 1, b>> : b \in 0..4}
    \cup {<<0, 2, b>> : b \in 0..5}
    \cup {<<1, c>> : c \in 1..7}
    \cup {<<2, 0, t>> : t \in 1..15} \cup {<<2, 1, t>> : t \in 1..9}

\* The part of record x the table is indexed by.
TableKey(x) ==
    CASE GroupOf(x) = 0 -> <<0, SubGroupOf(x), BranchOptionOf(x)>>
      [] GroupOf(x) = 1 -> <<1, CompareOptionOf(x)>>
      [] GroupOf(x) = 2 -> <<2, SubGroupOf(x), SetOptionOf(x)>>
      [] OTHER -> <<3>>

\* The operation of a table key, with every field the key leaves out at 0.
OperationOf(key) ==
    CASE key[1] = 0 -> decode_command(0, key[2], key[3], 0, 0)
      [] key[1] = 1 -> decode_command(1, 0, 0, key[2], 0)
      [] key[1] = 2 -> decode_command(2, key[2], 0, 0, key[3])
      [] OTHER -> decode_command(3, 0, 0, 0, 0)

FamilyOf(key) ==
    CASE key[1] = 0 -> "Branch" [] key[1] = 1 -> "Compare" [] OTHER -> "Set"

\* C12: the operation of a record is a function of its table key alone:
\* group 0 gives Branch operations by (sub-group, branch option), group 1
\* Compare operations by compare option 1-7, group 2 Set operations by
\* (sub-group, set option) with sub-group 0 over 0x1-0xf and sub-group 1 over
\* 0x1-0x9, group 3 nothing; a record of any other combination is rejected
\* as NavigationCommandInvalid with its 12 bytes and its indices; and
\* different table entries give different operations.
C12_OpcodeTable ==
    /\ pc = "opened" => \A p \in Places :
        LET x == RecordAt(contents, movie_objects, p[1], p[2])
            command == movie_objects[p[1]].navigation_commands[p[2]].command
        IN  /\ TableKey(x) \in TableEntries
            /\ command = OperationOf(TableKey(x))
            /\ command.family = FamilyOf(TableKey(x))
            /\ \A e \in TableEntries : OperationOf(e) = command => e = TableKey(x)
    /\ (pc = "failed" /\ result.kind = "NavigationCommandInvalid") =>
        /\ TableKey(FailedRecord) \notin TableEntries
        /\ result = NavigationCommandInvalid(Len(movie_objects),
                        Len(navigation_commands), FailedRecord)

\* C12's case: a record of group 2, sub-group 1 and set option 0xa, one past
\* the last entry of its sub-group, was rejected under a branch option and a
\* compare option that are entries of other groups.
C12_Witness ==
    /\ pc = "failed"
    /\ result.kind = "NavigationCommandInvalid"
    /\ GroupOf(result.bytes) = 2
    /\ SubGroupOf(result.bytes) = 1
    /\ SetOptionOf(result.bytes) = 10
    /\ result.bytes = FailedRecord

\* C13: the register classification is injective on 32-bit raw values: no
\* raw value other than the one in a decoded record's destination field
\* classifies to the record's destination operand, so an Unknown register
\* determines its raw value, top bit included.
C13_RegisterClassificationInjective ==
    pc = "opened" => \A p \in Places :
        LET x == RecordAt(contents, movie_objects, p[1], p[2])
            destination == movie_objects[p[1]].navigation_commands[p[2]].destination
        IN  ~BitSet(x[2], 7) =>
                \A v \in OperandValues :
                    new_register(U32FromBe(v)) = destination => v = SubSeq(x, 5, 8)
====
